---- MODULE Spec2Model ----
(***************************************************************************)
(* Model of the batch image-analysis page (src/routes/+page.svelte, kept   *)
(* as src/unnamed/part_000) and of the model engine singleton              *)
(* (src/lib/ministral.ts).                                                 *)
(*                                                                         *)
(* The browser runs one task at a time.  Every action below is one task:   *)
(* an event handler, or the continuation of an awaited promise, run up to  *)
(* the next await that needs another task (a network answer, a FileReader  *)
(* load, an image decode, a token of the generator).  Promise reactions    *)
(* that need no further task (microtasks) are part of the action that      *)
(* settles the promise.                                                    *)
(***************************************************************************)
EXTENDS Naturals, Integers, Sequences, FiniteSets, TLC

VARIABLES
    status,         \* part_000:9   status text shown by the page
    progress,       \* part_000:10  progress bar percentage
    isModelReady,   \* part_000:11
    isProcessing,   \* part_000:12
    isDownloading,  \* part_000:13
    prompt,         \* part_000:17
    results,        \* part_000:18  the results table
    ministral,      \* ministral.ts:138  the engine singleton
    loads,          \* invocations of MinistralEngine.load, in call order
    files,          \* invocations of processFile, in call order
    runs,           \* invocations of runInference, in call order
    gens,           \* invocations of MinistralEngine.generate still in flight
    downloads,      \* number of CSV files handed to the browser
    edits,          \* number of edits of the prompt field
    page,           \* which instance of the page component is mounted
    lastOp          \* the handler the last task ran, and whether it returned early

vars == <<status, progress, isModelReady, isProcessing, isDownloading, prompt,
          results, ministral, loads, files, runs, gens, downloads, edits, page,
          lastOp>>

pageVars == <<status, progress, isModelReady, isProcessing, isDownloading, prompt,
              results>>

----------------------------------------------------------------------------
(* Bounds of the model *)

\* load attempts (calls of MinistralEngine.load) in one behaviour
MaxLoads == 2
\* archives handed to processFile in one behaviour
MaxFiles == 2
\* batch runs started in one behaviour
MaxRuns == 2
\* tokens the generator streams for one image
MaxTokens == 2
\* CSV exports in one behaviour
MaxDownloads == 1
\* edits of the prompt field in one behaviour
MaxEdits == 1
\* page instances mounted in one behaviour (navigation)
MaxPages == 2

\* Length of a file name and of a response of the exported tables
MaxNameLen == 1
MaxResponseLen == 2

\* The characters of the exported tables: comma, double quote, newline and
\* an ordinary character
CsvAlphabet == {",", "\"", "\n", "a"}

----------------------------------------------------------------------------
(* Values *)

Msg(m) == [msg |-> m, n |-> 0]

\* part_000:119  `Loaded ${results.length} images ready for analysis.`
LoadedMsg(n) == [msg |-> "Loaded images ready for analysis.", n |-> n]

Prompts == {"Describe this image", "Count the objects"}

\* response: '' (part_000:106)
EmptyResponse == [kind |-> "empty", img |-> "", prompt |-> "", n |-> 0]

\* the catch clearing the response instead of writing the error string
ErrorResponseCleared == EmptyResponse

\* response: 'Error: ' + e (part_000:147)
ErrorResponse == [kind |-> "error", img |-> "", prompt |-> "", n |-> 0]

\* ministral.ts:114-121  generatedText after n tokens of the generation for
\* image img under prompt p (greedy decoding: the text is a function of both)
GeneratedText(img, p, n) == [kind |-> "text", img |-> img, prompt |-> p, n |-> n]

\* part_000:482  {#if result.response}: the empty string is falsy
NonEmpty(resp) == resp.kind # "empty"

----------------------------------------------------------------------------
(* 1. Model loader: MinistralEngine.load and the page's loadModel *)

\* ministral.ts:52  info.loaded / info.total, in percent
Fractions == {0, 50, 100}

IdleLoad == [pc |-> "done", maxProgress |-> 0, page |-> 0]

ActiveLoads == {t \in 1..Len(loads) : loads[t].pc # "done"}

\* part_000:31-34  the onProgress callback loadModel hands to load; it writes
\* the variables of the component instance that made the call
OnProgress(t, m, p) ==
    IF loads[t].page = page
    THEN status' = Msg(m) /\ progress' = p
    ELSE UNCHANGED <<status, progress>>

\* loadModel without the isDownloading term of its guard
LoadModelGuardLoadedOnly == ministral.isLoaded

\* part_000:26  the early return of loadModel
LoadModelGuard == ministral.isLoaded \/ isDownloading

\* ministral.ts:21  the early return of load
EngineLoadGuard == ministral.isLoaded

\* part_000:25-35 with ministral.ts:20-30: the handler loadModel, up to the
\* await of AutoProcessor.from_pretrained
loadModel ==
    IF LoadModelGuard
    THEN /\ lastOp' = "loadModel:ignored"
         /\ UNCHANGED <<pageVars, ministral, loads, files, runs, gens, downloads,
                        edits, page>>
    ELSE /\ Len(loads) < MaxLoads
         /\ lastOp' = "loadModel"
         /\ isDownloading' = TRUE
         /\ IF EngineLoadGuard
            THEN \* load returns at once; loadModel goes on at line 35
                 /\ isModelReady' = TRUE
                 /\ status' = Msg("Model loaded successfully.")
                 /\ UNCHANGED <<progress, ministral, loads>>
            ELSE /\ ministral' = [ministral EXCEPT !.isLoading = TRUE]
                 /\ loads' = Append(loads, [pc |-> "processor", maxProgress |-> 0,
                                            page |-> page])
                 /\ status' = Msg("Initializing...")
                 /\ progress' = 5
                 /\ UNCHANGED isModelReady
         /\ UNCHANGED <<isProcessing, prompt, results, files, runs, gens,
                        downloads, edits, page>>

\* part_000:207  {#if !isModelReady}: the load button is part of the page
LoadButtonShown == ~isModelReady

\* part_000:248  disabled={isDownloading}
LoadButtonDisabled == isDownloading

\* part_000:246-249  a click on the load button
LoadClick == LoadButtonShown /\ ~LoadButtonDisabled /\ loadModel

\* part_000:25  loadModel called whatever the button looks like
LoadModel == loadModel

\* ministral.ts:30-39  the processor arrived; load goes on to the await of
\* AutoModelForImageTextToText.from_pretrained
ProcessorLoaded(t) ==
    /\ loads[t].pc = "processor"
    /\ lastOp' = "acted"
    /\ ministral' = [ministral EXCEPT !.processor = TRUE]
    /\ loads' = [loads EXCEPT ![t].pc = "model"]
    /\ OnProgress(t, "Preparing model...", 10)
    /\ UNCHANGED <<isModelReady, isProcessing, isDownloading, prompt, results,
                   files, runs, gens, downloads, edits, page>>

\* progress_callback without the high-water mark of ministral.ts:58
ModelProgressUnclamped(t, f) ==
    /\ loads[t].pc = "model"
    /\ lastOp' = "acted"
    /\ LET currentProgress == 10 + (f * 90) \div 100
       IN  /\ loads' = [loads EXCEPT ![t].maxProgress = currentProgress]
           /\ OnProgress(t, "Downloading weights (~3GB)...", currentProgress)
    /\ UNCHANGED <<isModelReady, isProcessing, isDownloading, prompt, results,
                   ministral, files, runs, gens, downloads, edits, page>>

\* ministral.ts:46-64  progress_callback for the decoder weights file
ModelProgress(t, f) ==
    /\ loads[t].pc = "model"
    /\ LET currentProgress == 10 + (f * 90) \div 100
       IN  IF currentProgress > loads[t].maxProgress
           THEN /\ lastOp' = "acted"
                /\ loads' = [loads EXCEPT ![t].maxProgress = currentProgress]
                /\ OnProgress(t, "Downloading weights (~3GB)...", currentProgress)
           ELSE /\ lastOp' = "progress:stale"
                /\ UNCHANGED <<loads, status, progress>>
    /\ UNCHANGED <<isModelReady, isProcessing, isDownloading, prompt, results,
                   ministral, files, runs, gens, downloads, edits, page>>

\* ministral.ts:67-68, 72-74 and part_000:35-36  the model arrived: load
\* resolves and loadModel marks the page ready
ModelLoaded(t) ==
    /\ loads[t].pc = "model"
    /\ lastOp' = "acted"
    /\ ministral' = [ministral EXCEPT !.model = TRUE, !.isLoaded = TRUE,
                                      !.isLoading = FALSE]
    /\ loads' = [loads EXCEPT ![t] = IdleLoad]
    /\ IF loads[t].page = page
       THEN /\ progress' = 100
            /\ isModelReady' = TRUE
            /\ status' = Msg("Model loaded successfully.")
       ELSE UNCHANGED <<progress, isModelReady, status>>
    /\ UNCHANGED <<isProcessing, isDownloading, prompt, results, files, runs,
                   gens, downloads, edits, page>>

\* ministral.ts:69-74 and part_000:37-41  from_pretrained rejected (network,
\* no WebGPU, decoding): load rethrows and loadModel reports the error
LoadFailed(t) ==
    /\ loads[t].pc \in {"processor", "model"}
    /\ lastOp' = "load:failed"
    /\ ministral' = [ministral EXCEPT !.isLoading = FALSE]
    /\ loads' = [loads EXCEPT ![t] = IdleLoad]
    /\ IF loads[t].page = page
       THEN /\ status' = Msg("Error loading model: ")
            /\ isDownloading' = FALSE
       ELSE UNCHANGED <<status, isDownloading>>
    /\ UNCHANGED <<progress, isModelReady, isProcessing, prompt, results, files,
                   runs, gens, downloads, edits, page>>

----------------------------------------------------------------------------
(* 2. File handling: the archives a user can hand over, and processFile *)

\* A path is the sequence of its pieces; "/" is a piece of its own, and so
\* are an extension, the "._" prefix of a resource fork and "__MACOSX".
Entry(path, dir, img, blobOk) ==
    [path |-> path, dir |-> dir, img |-> img, blobOk |-> blobOk]

\* Entry paths for archives of one entry: file names with and without an
\* image extension, AppleDouble files (._name) at the top level and in a
\* folder, entries under __MACOSX, under a folder whose name starts with
\* __MACOSX and under a nested __MACOSX, and a folder named like an image
\* (JSZip names folders with a trailing slash and sets dir on them)
DrawnPaths ==
    << <<"._", "a", ".png">>,
       <<"docs", "/", "._", "a", ".png">>,
       <<"__MACOSX", "/", "a", ".png">>,
       <<"__MACOSX_old", "/", "a", ".png">>,
       <<"docs", "/", "__MACOSX", "/", "a", ".png">>,
       <<"a", ".jpeg">>,
       <<"a", ".JPG">>,
       <<"a">>,
       <<"a", ".png", ".txt">>,
       <<"pics", ".png", "/">> >>

DrawnFiles == <<"D1", "D2", "D3", "D4", "D5", "D6", "D7", "D8", "D9", "D10">>

\* The files of the model: name, whether JSZip can parse the bytes, entries in
\* the order zip.forEach enumerates them.  blobOk is whether
\* zipEntry.async('blob') resolves for the entry.
Archive(f) ==
    CASE f = "A" ->
           [name |-> <<"photos", ".zip">>, valid |-> TRUE,
            entries |-> << Entry(<<"a", ".png">>, FALSE, "A1", TRUE),
                           Entry(<<"__MACOSX", "/", "._", "a", ".png">>, FALSE, "Am", TRUE),
                           Entry(<<"b", ".jpg">>, FALSE, "A2", TRUE) >>]
      [] f = "B" ->
           [name |-> <<"scans", ".zip">>, valid |-> TRUE,
            entries |-> << Entry(<<"docs", "/">>, TRUE, "Bd", TRUE),
                           Entry(<<"docs", "/", "c", ".PNG">>, FALSE, "B1", TRUE),
                           Entry(<<"notes", ".txt">>, FALSE, "Bn", TRUE) >>]
      [] f = "C" ->
           [name |-> <<"mixed", ".zip">>, valid |-> TRUE,
            entries |-> << Entry(<<"x", ".webp">>, FALSE, "C1", TRUE),
                           Entry(<<"y", ".gif">>, FALSE, "C2", FALSE) >>]
      [] f = "T" ->
           [name |-> <<"truncated", ".zip">>, valid |-> FALSE, entries |-> << >>]
      [] f = "P" ->
           [name |-> <<"photo", ".png">>, valid |-> FALSE, entries |-> << >>]
      [] OTHER ->
           LET k == CHOOSE k \in 1..Len(DrawnFiles) : DrawnFiles[k] = f
               path == DrawnPaths[k]
           IN  [name |-> <<"drawn", ".zip">>, valid |-> TRUE,
                entries |-> << Entry(path, path[Len(path)] = "/", f, TRUE) >>]

Files == {"A", "B", "C", "T", "P"}

\* The data URLs a browser cannot decode as an image (the entry is named like
\* an image and its bytes are not one)
BrokenImages == {"C1"}

\* String.prototype.toLowerCase on a piece (the /i flag of part_000:94)
Lower(piece) ==
    CASE piece = ".PNG" -> ".png"
      [] piece = ".JPG" -> ".jpg"
      [] OTHER -> piece

\* part_000:94  /\.(jpg|jpeg|png|gif|webp)$/i.test(relativePath)
HasImageExtension(path) ==
    /\ Len(path) > 0
    /\ Lower(path[Len(path)]) \in {".jpg", ".jpeg", ".png", ".gif", ".webp"}

\* part_000:94  /^__MACOSX|\/\._/.test(relativePath)
IsMacArtifact(path) ==
    \/ (Len(path) > 0 /\ path[1] \in {"__MACOSX", "__MACOSX_old"})
    \/ \E k \in 1..(Len(path) - 1) : path[k] = "/" /\ path[k + 1] = "._"

\* part_000:93-96  isImage && !zipEntry.dir
Qualifies(e) == HasImageExtension(e.path) /\ ~IsMacArtifact(e.path) /\ ~e.dir

\* part_000:104  relativePath.split('/').pop() || relativePath
BaseName(path) ==
    LET slashes == {k \in 1..Len(path) : path[k] = "/"}
        last == IF slashes = {} THEN 0
                ELSE CHOOSE k \in slashes : \A j \in slashes : j <= k
        tail == SubSeq(path, last + 1, Len(path))
    IN  IF tail = << >> THEN path ELSE tail

\* part_000:79  file.name.endsWith('.zip')
IsZipName(name) == Len(name) > 0 /\ name[Len(name)] = ".zip"

\* part_000:103-107  the row pushed for an entry
RowOf(e) == [fileName |-> BaseName(e.path), imageSrc |-> e.img,
             response |-> EmptyResponse]

IdleFile == [pc |-> "done", file |-> "", pending |-> {}, awaited |-> FALSE]

ActiveFiles == {t \in 1..Len(files) : files[t].pc # "done"}

\* part_000:334 and 297-299  the file input and the drop zone are unusable
\* until the model is ready
FileInputDisabled == ~isModelReady

\* part_000:60-86  a file is selected or dropped: processFile up to the await
\* of zip.loadAsync
SelectFile(f) ==
    /\ ~FileInputDisabled
    /\ Len(files) < MaxFiles
    /\ lastOp' = "acted"
    /\ IF ~IsZipName(Archive(f).name)
       THEN /\ status' = Msg("Please upload a valid .zip file")
            /\ files' = Append(files, IdleFile)
       ELSE /\ files' = Append(files, [pc |-> "loadAsync", file |-> f,
                                       pending |-> {}, awaited |-> TRUE])
            /\ UNCHANGED status
    /\ UNCHANGED <<progress, isModelReady, isProcessing, isDownloading, prompt,
                   results, ministral, loads, runs, gens, downloads, edits, page>>

\* part_000:86-119  loadAsync resolved: the table is reset and a read is
\* started for every qualifying entry; with none, Promise.all resolves at once
ZipParsed(t) ==
    /\ files[t].pc = "loadAsync"
    /\ Archive(files[t].file).valid
    /\ lastOp' = "acted"
    /\ results' = << >>
    /\ LET es == Archive(files[t].file).entries
           wanted == {k \in 1..Len(es) : Qualifies(es[k])}
       IN  IF wanted = {}
           THEN /\ files' = [files EXCEPT ![t] = IdleFile]
                /\ status' = LoadedMsg(0)
           ELSE /\ files' = [files EXCEPT ![t].pc = "reading", ![t].pending = wanted]
                /\ UNCHANGED status
    /\ UNCHANGED <<progress, isModelReady, isProcessing, isDownloading, prompt,
                   ministral, loads, runs, gens, downloads, edits, page>>

\* part_000:86, 120-123  loadAsync rejected: the bytes are no archive
ZipRejected(t) ==
    /\ files[t].pc = "loadAsync"
    /\ ~Archive(files[t].file).valid
    /\ lastOp' = "acted"
    /\ files' = [files EXCEPT ![t] = IdleFile]
    /\ status' = Msg("Error parsing zip file: ")
    /\ UNCHANGED <<progress, isModelReady, isProcessing, isDownloading, prompt,
                   results, ministral, loads, runs, gens, downloads, edits, page>>

\* part_000:98-119  the FileReader of entry k fired onload: the row is pushed
\* on the table as it is now; when it was the last read of a processFile
\* still awaiting Promise.all, the status is written.  The reads of one
\* archive finish in any order.
EntryRead(t, k) ==
    /\ files[t].pc = "reading"
    /\ k \in files[t].pending
    /\ Archive(files[t].file).entries[k].blobOk
    /\ lastOp' = "acted"
    /\ results' = Append(results, RowOf(Archive(files[t].file).entries[k]))
    /\ LET left == files[t].pending \ {k}
       IN  IF left = {}
           THEN /\ files' = [files EXCEPT ![t] = IdleFile]
                /\ IF files[t].awaited
                   THEN status' = LoadedMsg(Len(results'))
                   ELSE UNCHANGED status
           ELSE /\ files' = [files EXCEPT ![t].pending = left]
                /\ UNCHANGED status
    /\ UNCHANGED <<progress, isModelReady, isProcessing, isDownloading, prompt,
                   ministral, loads, runs, gens, downloads, edits, page>>

\* part_000:98, 118-123  zipEntry.async('blob') rejected for entry k:
\* Promise.all rejects, processFile reports it and returns; the reads of the
\* other entries go on
EntryFailed(t, k) ==
    /\ files[t].pc = "reading"
    /\ k \in files[t].pending
    /\ ~Archive(files[t].file).entries[k].blobOk
    /\ lastOp' = "acted"
    /\ LET left == files[t].pending \ {k}
       IN  IF left = {}
           THEN files' = [files EXCEPT ![t] = IdleFile]
           ELSE files' = [files EXCEPT ![t].pending = left, ![t].awaited = FALSE]
    /\ IF files[t].awaited
       THEN status' = Msg("Error parsing zip file: ")
       ELSE UNCHANGED status
    /\ UNCHANGED <<progress, isModelReady, isProcessing, isDownloading, prompt,
                   results, ministral, loads, runs, gens, downloads, edits, page>>

----------------------------------------------------------------------------
(* 3. Inference: runInference and MinistralEngine.generate *)

\* The record of a run in flight also carries startPrompt, the value the prompt
\* field had when the run was started; the code keeps no such copy
IdleRun == [pc |-> "done", i |-> 0, img |-> ""]

\* A run whose awaited promise (part_000:139) can no longer be resolved:
\* the image fired onerror, for which there is no handler
ImageErrorRun == [pc |-> "imgerror", i |-> 0, img |-> ""]

\* A run whose onload handler threw (an unhandled rejection) before it
\* reached resolve() at part_000:150
ThrewRun == [pc |-> "threw", i |-> 0, img |-> ""]

ActiveRuns == {r \in 1..Len(runs) : runs[r].pc \in {"imgwait", "generating"}}

StuckRuns == {r \in 1..Len(runs) : runs[r].pc \in {"imgerror", "threw"}}

\* The Run Analysis button without the isProcessing term
RunButtonDisabledIgnoringRun == ~isModelReady \/ Len(results) = 0

\* part_000:382  disabled={!isModelReady || !results.length || isProcessing}
RunButtonDisabled == ~isModelReady \/ Len(results) = 0 \/ isProcessing

\* part_000:134-137  the loop head for index i (1-based here) over the table
\* tbl as it is when the loop gets there, and lines 154-158 when the loop ends
LoopFrom(r, i, tbl) ==
    IF i <= Len(tbl)
    THEN /\ runs' = [runs EXCEPT ![r] = [pc |-> "imgwait", i |-> i,
                                          img |-> tbl[i].imageSrc,
                                          startPrompt |-> runs[r].startPrompt]]
         /\ UNCHANGED <<status, isProcessing>>
    ELSE /\ runs' = [runs EXCEPT ![r] = IdleRun]
         /\ status' = Msg("Processing complete.")
         /\ isProcessing' = FALSE

\* part_000:146-150  the catch around generate for index i, then resolve();
\* with no row at index i the assignment itself throws
CatchGenerateError(r, i) ==
    IF i <= Len(results)
    THEN /\ results' = [results EXCEPT ![i].response = ErrorResponse]
         /\ LoopFrom(r, i + 1, results')
    ELSE /\ runs' = [runs EXCEPT ![r] = ThrewRun]
         /\ UNCHANGED <<results, status, isProcessing>>

\* runInference guarding on the model alone
RunGuardReadyOnly == ~isModelReady

\* part_000:129  the early return of runInference
RunGuard == Len(results) = 0 \/ ~isModelReady

\* part_000:128-139  the handler runInference, up to the await of the first
\* image's onload (with no row at all the loop body never runs)
runInference ==
    IF RunGuard
    THEN /\ lastOp' = "runInference:ignored"
         /\ UNCHANGED <<pageVars, ministral, loads, files, runs, gens, downloads,
                        edits, page>>
    ELSE /\ lastOp' = "runInference"
         /\ IF Len(results) > 0
            THEN /\ isProcessing' = TRUE
                 /\ runs' = Append(runs, [pc |-> "imgwait", i |-> 1,
                                          img |-> results[1].imageSrc,
                                          startPrompt |-> prompt])
                 /\ UNCHANGED status
            ELSE /\ isProcessing' = FALSE
                 /\ runs' = Append(runs, IdleRun)
                 /\ status' = Msg("Processing complete.")
         /\ UNCHANGED <<progress, isModelReady, isDownloading, prompt, results,
                        ministral, loads, files, gens, downloads, edits, page>>

\* part_000:380-383  a click on the Run Analysis button
RunInference == ~RunButtonDisabled /\ Len(runs) < MaxRuns /\ runInference

\* part_000:128  runInference called while no run is in progress, whatever
\* the button looks like
RunCall == ~isProcessing /\ Len(runs) < MaxRuns /\ runInference

\* onload calling generate without awaiting it: resolve() runs at once
ImageLoadedNoAwait(r) ==
    /\ runs[r].pc = "imgwait"
    /\ runs[r].img \notin BrokenImages
    /\ lastOp' = "acted"
    /\ gens' = gens \cup {[run |-> r, i |-> runs[r].i, img |-> runs[r].img,
                            prompt |-> prompt, n |-> 0]}
    /\ LoopFrom(r, runs[r].i + 1, results)
    /\ UNCHANGED <<progress, isModelReady, isDownloading, prompt, results,
                   ministral, loads, files, downloads, edits, page>>

\* part_000:140-142 with ministral.ts:78-109  the image decoded: onload calls
\* generate with the prompt as it is now
ImageLoaded(r) ==
    /\ runs[r].pc = "imgwait"
    /\ runs[r].img \notin BrokenImages
    /\ lastOp' = "acted"
    /\ IF ~(ministral.model /\ ministral.processor)
       THEN \* ministral.ts:83  throw new Error('Model not loaded')
            /\ CatchGenerateError(r, runs[r].i)
            /\ UNCHANGED gens
       ELSE /\ gens' = gens \cup {[run |-> r, i |-> runs[r].i, img |-> runs[r].img,
                                   prompt |-> prompt, n |-> 0]}
            /\ runs' = [runs EXCEPT ![r].pc = "generating"]
            /\ UNCHANGED <<results, status, isProcessing>>
    /\ UNCHANGED <<progress, isModelReady, isDownloading, prompt, ministral,
                   loads, files, downloads, edits, page>>

\* part_000:136-139  the image did not decode: onerror has no handler and the
\* awaited promise stays pending
ImageBroken(r) ==
    /\ runs[r].pc = "imgwait"
    /\ runs[r].img \in BrokenImages
    /\ lastOp' = "acted"
    /\ runs' = [runs EXCEPT ![r] = ImageErrorRun]
    /\ UNCHANGED <<pageVars, ministral, loads, files, gens, downloads, edits, page>>

\* ministral.ts:118-121 with part_000:142-145  the streamer delivers a token:
\* onToken writes the cumulative text to results[i].  With no row at index i
\* the callback throws, generate rejects and the catch throws as well.
TokenStreamed(g) ==
    /\ g \in gens
    /\ g.n < MaxTokens
    /\ lastOp' = "acted"
    /\ IF g.i <= Len(results)
       THEN /\ results' = [results EXCEPT
                             ![g.i].response = GeneratedText(g.img, g.prompt, g.n + 1)]
            /\ gens' = (gens \ {g}) \cup {[g EXCEPT !.n = g.n + 1]}
            /\ UNCHANGED <<runs, status, isProcessing>>
       ELSE /\ gens' = gens \ {g}
            /\ runs' = [runs EXCEPT ![g.run] = ThrewRun]
            /\ UNCHANGED <<results, status, isProcessing>>
    /\ UNCHANGED <<progress, isModelReady, isDownloading, prompt, ministral,
                   loads, files, downloads, edits, page>>

\* ministral.ts:125-133 with part_000:150-158  generate resolved (the
\* streamer delivered at least one token): resolve(), and the loop goes on
GenerateResolved(g) ==
    /\ g \in gens
    /\ g.n > 0
    /\ lastOp' = "acted"
    /\ gens' = gens \ {g}
    /\ LoopFrom(g.run, g.i + 1, results)
    /\ UNCHANGED <<progress, isModelReady, isDownloading, prompt, results,
                   ministral, loads, files, downloads, edits, page>>

\* ministral.ts:91, 109, 125 with part_000:146-158  generate rejected (no
\* canvas context, the processor or the device failed)
GenerateRejected(g) ==
    /\ g \in gens
    /\ lastOp' = "generate:rejected"
    /\ gens' = gens \ {g}
    /\ CatchGenerateError(g.run, g.i)
    /\ UNCHANGED <<progress, isModelReady, isDownloading, prompt, ministral,
                   loads, files, downloads, edits, page>>

----------------------------------------------------------------------------
(* 4. Prompt field, export, navigation *)

\* part_000:368-375  bind:value={prompt}, disabled={!isModelReady}
EditPrompt(p) ==
    /\ isModelReady
    /\ p # prompt
    /\ lastOp' = "acted"
    /\ edits < MaxEdits
    /\ prompt' = p
    /\ edits' = edits + 1
    /\ UNCHANGED <<status, progress, isModelReady, isProcessing, isDownloading,
                   results, ministral, loads, files, runs, gens, downloads, page>>

\* Strings of the export are sequences of pieces; a piece is one character
\* or a run of characters none of which is a comma, a quote or a newline
Specials == {",", "\"", "\n"}

\* str.replace(/"/g, '""') with the quotes left single
KeepQuotes(str) == str

\* part_000:169  str.replace(/"/g, '""')
RECURSIVE DoubleQuotes(_)
DoubleQuotes(str) ==
    IF str = << >> THEN << >>
    ELSE (IF Head(str) = "\"" THEN <<"\"", "\"">> ELSE <<Head(str)>>)
            \o DoubleQuotes(Tail(str))

\* part_000:167-172  escapeCSV
escapeCSV(str) ==
    IF \E i \in 1..Len(str) : str[i] \in Specials
    THEN <<"\"">> \o DoubleQuotes(str) \o <<"\"">>
    ELSE str

\* Array.prototype.join
RECURSIVE Join(_, _)
Join(parts, sep) ==
    IF parts = << >> THEN << >>
    ELSE IF Len(parts) = 1 THEN parts[1]
    ELSE parts[1] \o sep \o Join(Tail(parts), sep)

\* part_000:174  headers
headers == << <<"File Name">>, <<"Response">> >>

\* part_000:174-180  csvContent for the table tbl
CsvContent(tbl) ==
    LET csvRows == <<Join(headers, <<",">>)>> \o
                   [k \in 1..Len(tbl) |->
                       escapeCSV(tbl[k].fileName) \o <<",">> \o escapeCSV(tbl[k].response)]
    IN  Join(csvRows, <<"\n">>)

\* The button disabled on an empty table only
DownloadButtonDisabledWhenEmpty == Len(results) = 0

\* part_000:416, 426  the Download CSV button is shown with a non-empty table
\* and disabled while no row has a response
DownloadButtonDisabled ==
    Len(results) = 0 \/ ~\E k \in 1..Len(results) : NonEmpty(results[k].response)

\* part_000:164-190  the function downloadCSV; op is the name the step is
\* recorded under
downloadCSV(op) ==
    /\ lastOp' = op
    /\ IF Len(results) = 0
       THEN UNCHANGED downloads
       ELSE downloads' = downloads + 1
    /\ UNCHANGED <<pageVars, ministral, loads, files, runs, gens, edits, page>>

\* part_000:424-427  a click on the enabled Download CSV button
DownloadCSV ==
    /\ ~DownloadButtonDisabled
    /\ downloads < MaxDownloads
    /\ downloadCSV("acted")

\* part_000:424-427  the user asks for the export in any state: a disabled
\* button delivers no click, an enabled one calls downloadCSV
DownloadRequest ==
    /\ downloads < MaxDownloads
    /\ IF DownloadButtonDisabled
       THEN /\ lastOp' = "downloadCSV:ignored"
            /\ UNCHANGED <<pageVars, ministral, loads, files, runs, gens,
                           downloads, edits, page>>
       ELSE downloadCSV("downloadCSV")

\* ministral.ts:137-138  the page component is destroyed and created anew
\* (navigation away and back) while the engine singleton lives on.  The
\* model explores navigation before any archive was handed to the page.
Navigate ==
    /\ page < MaxPages
    /\ Len(files) = 0 /\ Len(runs) = 0 /\ downloads = 0
    /\ lastOp' = "acted"
    /\ page' = page + 1
    /\ status' = Msg("Ready to initialize")
    /\ progress' = 0
    /\ isModelReady' = FALSE
    /\ isProcessing' = FALSE
    /\ isDownloading' = FALSE
    /\ prompt' = "Describe this image"
    /\ results' = << >>
    /\ UNCHANGED <<ministral, loads, files, runs, gens, downloads, edits>>

----------------------------------------------------------------------------
(* Specifications *)

\* part_000:9-18 and ministral.ts:14-17
Init ==
    /\ status = Msg("Ready to initialize")
    /\ progress = 0
    /\ isModelReady = FALSE
    /\ isProcessing = FALSE
    /\ isDownloading = FALSE
    /\ prompt = "Describe this image"
    /\ results = << >>
    /\ ministral = [isLoaded |-> FALSE, isLoading |-> FALSE,
                    processor |-> FALSE, model |-> FALSE]
    /\ loads = << >>
    /\ files = << >>
    /\ runs = << >>
    /\ gens = {}
    /\ downloads = 0
    /\ edits = 0
    /\ page = 1
    /\ lastOp = "acted"

\* The steps of a load in flight
LoadStep ==
    \/ \E t \in 1..Len(loads) : ProcessorLoaded(t)
    \/ \E t \in 1..Len(loads) : \E f \in Fractions : ModelProgress(t, f)
    \/ \E t \in 1..Len(loads) : ModelLoaded(t)
    \/ \E t \in 1..Len(loads) : LoadFailed(t)

\* The steps of a processFile call in flight
FileStep ==
    \/ \E t \in 1..Len(files) : ZipParsed(t)
    \/ \E t \in 1..Len(files) : ZipRejected(t)
    \/ \E t \in 1..Len(files) : \E k \in files[t].pending : EntryRead(t, k)
    \/ \E t \in 1..Len(files) : \E k \in files[t].pending : EntryFailed(t, k)

\* The steps of a run in flight
RunStep ==
    \/ \E r \in 1..Len(runs) : ImageLoaded(r)
    \/ \E r \in 1..Len(runs) : ImageBroken(r)
    \/ \E g \in gens : TokenStreamed(g)
    \/ \E g \in gens : GenerateResolved(g)
    \/ \E g \in gens : GenerateRejected(g)

\* The steps of the batch side of the page
BatchStep ==
    \/ \E f \in Files : SelectFile(f)
    \/ \E t \in 1..Len(files) : ZipParsed(t)
    \/ \E t \in 1..Len(files) : ZipRejected(t)
    \/ \E t \in 1..Len(files) : \E k \in files[t].pending : EntryRead(t, k)
    \/ \E t \in 1..Len(files) : \E k \in files[t].pending : EntryFailed(t, k)
    \/ RunInference
    \/ \E r \in 1..Len(runs) : ImageLoaded(r)
    \/ \E r \in 1..Len(runs) : ImageBroken(r)
    \/ \E g \in gens : TokenStreamed(g)
    \/ \E g \in gens : GenerateResolved(g)
    \/ \E g \in gens : GenerateRejected(g)
    \/ \E p \in Prompts : EditPrompt(p)
    \/ DownloadCSV

Next == LoadClick \/ LoadStep \/ BatchStep

\* One page instance, driven through its controls
Spec == Init /\ [][Next]_vars

LoaderNext == LoadModel \/ LoadStep \/ Navigate

\* A file is chosen while no processFile call is in flight
SelectFileAlone(f) == ActiveFiles = {} /\ SelectFile(f)

ExtractNext ==
    \/ LoadClick \/ LoadStep
    \/ \E f \in Files : SelectFileAlone(f)
    \/ \E k \in 1..Len(DrawnFiles) : SelectFileAlone(DrawnFiles[k])
    \/ FileStep

\* The extraction alone: archives are processed one after the other, among
\* them the archives of one drawn entry
SpecExtract == Init /\ [][ExtractNext]_vars

\* The strings over the export alphabet of at most n characters
RECURSIVE StringsUpTo(_)
StringsUpTo(n) ==
    IF n = 0 THEN {<< >>}
    ELSE LET shorter == StringsUpTo(n - 1)
         IN  shorter \cup {Append(w, c) : w \in shorter, c \in CsvAlphabet}

CsvRows == {[fileName |-> name, imageSrc |-> "data:", response |-> resp] :
               name \in StringsUpTo(MaxNameLen), resp \in StringsUpTo(MaxResponseLen)}

CsvTables == {<< >>} \cup {<<r>> : r \in CsvRows}
                     \cup {<<r1, r2>> : r1 \in CsvRows, r2 \in CsvRows}

\* A page with the model loaded and a table whose file names and responses
\* are strings over the export alphabet
CsvInit ==
    /\ status = Msg("Processing complete.")
    /\ progress = 100
    /\ isModelReady = TRUE
    /\ isProcessing = FALSE
    /\ isDownloading = TRUE
    /\ prompt = "Describe this image"
    /\ results \in CsvTables
    /\ ministral = [isLoaded |-> TRUE, isLoading |-> FALSE,
                    processor |-> TRUE, model |-> TRUE]
    /\ loads = <<IdleLoad>>
    /\ files = << >>
    /\ runs = << >>
    /\ gens = {}
    /\ downloads = 0
    /\ edits = 0
    /\ page = 1
    /\ lastOp = "acted"

\* part_000:164  downloadCSV called on the table
CsvExport == downloads < MaxDownloads /\ downloadCSV("downloadCSV")

\* The export alone, on tables of strings
SpecCsv == CsvInit /\ [][CsvExport]_vars

DirectNext ==
    \/ LoadClick \/ LoadStep
    \/ \E f \in Files : SelectFile(f)
    \/ FileStep
    \/ RunCall
    \/ RunStep
    \/ DownloadRequest

\* The page with requests made whatever the buttons look like: runInference
\* is called directly at any time at which no run is in progress, and the
\* export is asked for also while the Download CSV button is disabled
SpecDirect == Init /\ [][DirectNext]_vars

\* The model loader alone: loadModel called at any time, and the page left
\* and entered again while the engine singleton lives on
SpecLoader == Init /\ [][LoaderNext]_vars

----------------------------------------------------------------------------
(* Claims about the batch runner *)

\* The step in which run r leaves the loop and reaches part_000:154-158
Finishes(r) ==
    /\ r \in 1..Len(runs)
    /\ runs[r].pc \in {"imgwait", "generating"}
    /\ runs'[r].pc = "done"

\* C1: when a run over a table with at least one row finishes, the run is
\* Completed (isProcessing false, status 'Processing complete.') and every
\* row of the table has a non-empty response, whatever the user did (archive
\* load, prompt edit, export) while the run was in progress.
C1_RunCompletesEveryRow ==
    [][\A r \in 1..Len(runs) :
          Finishes(r) =>
            /\ ~isProcessing'
            /\ status' = Msg("Processing complete.")
            /\ \A k \in 1..Len(results') : NonEmpty(results'[k].response)]_vars

\* C2: a run request while a run is in progress is a no-op: no run starts
\* while isProcessing holds, and at most one generate call is in flight.
C2_NoRunWhileProcessing ==
    [][/\ isProcessing => Len(runs') = Len(runs)
       /\ Cardinality(gens') <= 1
       /\ Cardinality(ActiveRuns') <= 1]_vars

\* A run is in progress with its generate call in flight, on a ready page
\* with rows and with runs left in the bound: only isProcessing keeps the
\* button disabled.
C2_Witness ==
    /\ isProcessing /\ isModelReady /\ Len(results) > 0
    /\ Len(runs) < MaxRuns
    /\ ActiveRuns # {} /\ gens # {}

\* C3: within one run the indices are taken in order 1, 2, 3, ..., each once,
\* and the generate call for index i has settled before the image load and
\* the generate call for index i+1 begin.
C3_RowsInOrderOneAtATime ==
    [][/\ \A r \in 1..Len(runs') :
            IF r \in 1..Len(runs)
            THEN /\ runs'[r].i # runs[r].i /\ runs'[r].pc \in {"imgwait", "generating"}
                    => /\ runs'[r].i = runs[r].i + 1
                       /\ runs'[r].pc = "imgwait"
                       /\ \E g \in gens : g.run = r /\ g.i = runs[r].i /\ g \notin gens'
                 /\ Finishes(r) => runs[r].i >= Len(results')
            ELSE runs'[r].pc = "imgwait" /\ runs'[r].i = 1
       /\ \A g \in gens' :
            /\ runs'[g.run].pc = "generating"
            /\ runs'[g.run].i = g.i
            /\ \A h \in gens' : h.run = g.run => h = g
       /\ \A g \in gens' \ gens :
            \/ \E h \in gens : h.run = g.run /\ h.i = g.i /\ h.n + 1 = g.n
            \/ g.n = 0 /\ runs[g.run].pc = "imgwait" /\ runs[g.run].i = g.i]_vars

\* A run is generating for its second row after the first row got its text.
C3_Witness ==
    \E r \in 1..Len(runs) :
        /\ runs[r].pc = "generating" /\ runs[r].i = 2
        /\ \E g \in gens : g.run = r /\ g.i = 2 /\ g.n > 0
        /\ Len(results) >= 2 /\ NonEmpty(results[1].response)

\* C4: when generate rejects for row i the rejection is caught, row i's
\* response becomes the error string, the runner goes on to row i+1 (or
\* finishes as Completed).
C4_RowFailureContained ==
    [][lastOp' = "generate:rejected" =>
         \A g \in gens \ gens' :
            /\ g.i <= Len(results')
            /\ results'[g.i].response = ErrorResponse
            /\ \/ runs'[g.run].pc = "imgwait" /\ runs'[g.run].i = g.i + 1
               \/ runs'[g.run].pc = "done" /\ status' = Msg("Processing complete.")]_vars

\* C5: a started run always ends; no image that fails to decode and no
\* failed generation leaves the run in Running with nothing left that
\* could end it.
C5_NoRunStuck == StuckRuns = {}

\* C6: while a run is in progress the table keeps its length and its rows
\* (fileName, imageSrc); an archive selected during the run neither resets
\* nor repopulates it.
C6_TableFixedDuringRun ==
    [][isProcessing /\ isProcessing' =>
         /\ Len(results') = Len(results)
         /\ \A k \in 1..Len(results) :
               /\ results'[k].fileName = results[k].fileName
               /\ results'[k].imageSrc = results[k].imageSrc]_vars

----------------------------------------------------------------------------
(* Claims about processFile *)

\* The step in which the processFile call t reaches part_000:119
FileLoaded(t) ==
    /\ t \in 1..Len(files)
    /\ files[t].pc \in {"loadAsync", "reading"}
    /\ files[t].awaited
    /\ files'[t].pc = "done"
    /\ status' = LoadedMsg(Len(results'))

\* The entries of archive f that qualify, by their place in the enumeration
Wanted(f) == {k \in 1..Len(Archive(f).entries) : Qualifies(Archive(f).entries[k])}

\* The rows of tbl that show an entry of archive f follow the enumeration
InEnumerationOrder(tbl, f) ==
    \A j1, j2 \in 1..Len(tbl) :
      \A k1, k2 \in Wanted(f) :
        /\ j1 < j2
        /\ tbl[j1].imageSrc = Archive(f).entries[k1].img
        /\ tbl[j2].imageSrc = Archive(f).entries[k2].img
        => k1 < k2

\* tbl holds one fresh row for every qualifying entry of f and no other row
IsTableOf(tbl, f) ==
    /\ Len(tbl) = Cardinality(Wanted(f))
    /\ \A k \in Wanted(f) : \E j \in 1..Len(tbl) : tbl[j] = RowOf(Archive(f).entries[k])

\* C7: the rows processFile produces are in archive enumeration order,
\* whatever the order in which the reads of the entries complete.
C7_RowsInEnumerationOrder ==
    [][\A t \in 1..Len(files) :
          FileLoaded(t) => InEnumerationOrder(results', files[t].file)]_vars

\* C8: once processFile finishes for an archive the table holds exactly one
\* row per qualifying entry of that archive, each with an empty response,
\* and no row of an earlier archive or of an overlapping processFile call.
C8_TableReplacedWholesale ==
    [][\A t \in 1..Len(files) :
          FileLoaded(t) => IsTableOf(results', files[t].file)]_vars

----------------------------------------------------------------------------
(* Claims about the model loader *)

\* C9: a call of MinistralEngine.load while the engine is loaded or while an
\* earlier call is still in progress is a no-op: it starts no second
\* processor/model load.
C9_LoadIdempotent ==
    [][ministral.isLoaded \/ ministral.isLoading => Len(loads') = Len(loads)]_vars

\* The loads in flight that a component instance p started
PageLoads(p) == {t \in ActiveLoads : loads[t].page = p}

\* C10: at the page level one load attempt is in flight at a time: a
\* load-model trigger while the page's model state is Loading
\* (isDownloading) or Ready (isModelReady) starts nothing and changes nothing.
C10_OneLoadPerPage ==
    [][/\ (isDownloading \/ isModelReady) /\ page' = page
            => Len(loads') = Len(loads)
       /\ lastOp' = "loadModel:ignored" => UNCHANGED <<pageVars, ministral, loads>>
       /\ Cardinality(PageLoads(page)') <= 1]_vars

\* A trigger was ignored while the page's one load was in flight.
C10_Witness ==
    /\ lastOp = "loadModel:ignored"
    /\ isDownloading /\ ~isModelReady
    /\ Cardinality(PageLoads(page)) = 1

\* The step in which the load t of the mounted page instance fails
LoadFails(t) ==
    /\ t \in 1..Len(loads)
    /\ lastOp' = "load:failed"
    /\ loads[t].pc # "done" /\ loads'[t].pc = "done"
    /\ loads[t].page = page

\* C11: when a model load fails the error is shown in the status text, the
\* model state is not Ready (isModelReady, ministral.isLoaded, isLoading and
\* isDownloading all false) and the next load-model trigger is not ignored.
C11_FailedLoadAllowsRetry ==
    [][\A t \in 1..Len(loads) :
          LoadFails(t) =>
            /\ status' = Msg("Error loading model: ")
            /\ ~isModelReady' /\ ~isDownloading'
            /\ ~ministral'.isLoaded /\ ~ministral'.isLoading
            /\ ~LoadModelGuard']_vars

\* C12: during a load attempt the percentage the page observes never
\* decreases, whatever the order of the transport's progress events: the
\* values handed to onProgress (5, 10, the download percentages, 100) and
\* stored in progress are non-decreasing.
C12_ProgressMonotone ==
    [][Len(loads') = Len(loads) /\ page' = page => progress' >= progress]_vars

\* A progress event below the high-water mark arrived for the page's load
\* and was not shown.
C12_Witness ==
    /\ lastOp = "progress:stale"
    /\ progress = 55
    /\ \E t \in PageLoads(page) : loads[t].maxProgress = 55

----------------------------------------------------------------------------
(* Claims about the responses *)

\* new is old with zero or more tokens added ('' is a prefix of every string)
Extends(old, new) ==
    \/ old.kind = "empty"
    \/ /\ old.kind = "text" /\ new.kind = "text"
       /\ old.img = new.img /\ old.prompt = new.prompt
       /\ old.n <= new.n

\* The rows that keep their index in a step and change their response
Rewritten == {k \in 1..Len(results) : /\ k <= Len(results')
                                      /\ results'[k].response # results[k].response}

\* C13 as claimed: within a run every write to a row's response extends the
\* value the response had before the write.
C13_ResponsesOnlyGrow ==
    [][isProcessing => \A k \in Rewritten :
          Extends(results[k].response, results'[k].response)]_vars

\* C13 as amended: a write never empties a response; a text is written only
\* by the generate call in flight for that index and, after the call's first
\* token, extends what the row held; an error string is written only when
\* that call rejects.
C13_WritesByCall ==
    [][\A k \in Rewritten :
          /\ NonEmpty(results'[k].response)
          /\ results'[k].response.kind = "text" =>
                \E g \in gens :
                   /\ g.i = k
                   /\ results'[k].response = GeneratedText(g.img, g.prompt, g.n + 1)
                   /\ g.n > 0 => Extends(results[k].response, results'[k].response)
          /\ results'[k].response.kind = "error" =>
                /\ lastOp' = "generate:rejected"
                /\ \E g \in gens \ gens' : g.i = k]_vars

\* The second token of a call has been written over its first.
C13_Witness ==
    \E g \in gens :
        /\ g.n = 2 /\ g.i <= Len(results)
        /\ results[g.i].response = GeneratedText(g.img, g.prompt, 2)

----------------------------------------------------------------------------
(* Claims about failing archives *)

\* processFile fails on f: the name is no .zip name, the bytes are no
\* archive, or a qualifying entry cannot be decoded
FailingArchive(f) ==
    \/ ~IsZipName(Archive(f).name)
    \/ ~Archive(f).valid
    \/ \E k \in Wanted(f) : ~Archive(f).entries[k].blobOk

ArchiveErrors == {Msg("Please upload a valid .zip file"),
                  Msg("Error parsing zip file: ")}

\* processFile call t returns in this step (its reads may go on)
FileReturns(t) ==
    /\ files[t].pc # "done"
    /\ files[t].awaited
    /\ files'[t].pc = "done" \/ ~files'[t].awaited

\* C14: a processFile call that fails shows an archive error when it returns,
\* and nothing it does changes the results table: not the rejected file
\* name, and no step of a call whose archive does not parse or has an entry
\* that cannot be decoded.
C14_FailedArchiveLeavesTable ==
    [][/\ Len(files') > Len(files) /\ files'[Len(files')].pc = "done" =>
             status' \in ArchiveErrors /\ results' = results
       /\ \A t \in 1..Len(files) :
             files'[t] # files[t] /\ files[t].pc # "done"
                                  /\ FailingArchive(files[t].file) =>
                /\ results' = results
                /\ FileReturns(t) => status' \in ArchiveErrors]_vars

----------------------------------------------------------------------------
(* Claims about the guard of runInference *)

\* The step is a call of runInference
RunRequested == lastOp' \in {"runInference", "runInference:ignored"}

\* C15: a call of runInference while the model is not ready or the table is
\* empty leaves isProcessing false, calls generate for no row, starts no run
\* and changes neither the table nor the status.
C15_GuardedRunDoesNothing ==
    [][RunRequested /\ (~isModelReady \/ Len(results) = 0) =>
          /\ ~isProcessing'
          /\ gens' = gens /\ runs' = runs
          /\ results' = results /\ status' = status]_vars

\* runInference was called, and returned at once, while the model was loading
C15_Witness ==
    /\ lastOp = "runInference:ignored"
    /\ ~isModelReady /\ isDownloading
    /\ ~isProcessing /\ Len(runs) = 0

----------------------------------------------------------------------------
(* Claims about the extraction filter *)

\* The path lies under the folder __MACOSX
UnderMacosx(path) == Len(path) >= 2 /\ path[1] = "__MACOSX" /\ path[2] = "/"

\* The file name starts with ._ (an AppleDouble resource fork)
IsResourceFork(path) == BaseName(path)[1] = "._"

\* The entries the extraction is said to keep
ShouldInclude(e) ==
    /\ HasImageExtension(e.path)
    /\ ~e.dir
    /\ ~(UnderMacosx(e.path) \/ IsResourceFork(e.path))

\* C16: when an archive processed on its own is loaded, the table holds a row
\* for an entry exactly when the entry has an image extension (in any case),
\* is no folder and is neither under __MACOSX nor a ._ resource fork; the
\* number of rows is the number of entries with an image extension minus
\* those of them that are such metadata; with no such entry the table is
\* empty and the status reports 0 images.
C16_FilterKeepsImagesOnly ==
    [][\A t \in 1..Len(files) : FileLoaded(t) =>
          LET es == Archive(files[t].file).entries
              images == {k \in 1..Len(es) : HasImageExtension(es[k].path) /\ ~es[k].dir}
              meta == {k \in images : UnderMacosx(es[k].path) \/ IsResourceFork(es[k].path)}
          IN  /\ \A k \in 1..Len(es) :
                    ShouldInclude(es[k]) <=>
                       \E j \in 1..Len(results') : results'[j] = RowOf(es[k])
              /\ Len(results') = Cardinality(images) - Cardinality(meta)]_vars

----------------------------------------------------------------------------
(* Claims about the CSV export *)

\* The step is a request for the export
ExportRequested == lastOp' \in {"downloadCSV", "downloadCSV:ignored"}

NoResponseYet == \A k \in 1..Len(results) : ~NonEmpty(results[k].response)

\* C17: an export requested while no row of the table has a non-empty
\* response builds no CSV and starts no download, and changes nothing else.
C17_NoExportWithoutResponse ==
    [][ExportRequested /\ NoResponseYet =>
          downloads' = downloads /\ UNCHANGED pageVars]_vars

\* The export was asked for on a table with rows and no response
C17_Witness ==
    /\ lastOp = "downloadCSV:ignored"
    /\ Len(results) > 0 /\ NoResponseYet
    /\ downloads = 0


\* An RFC 4180 reader: fields are separated by commas and records by line
\* breaks; a field that starts with a quote runs to its closing quote, a
\* doubled quote inside it standing for one quote.  mode is "plain" outside
\* quotes (start tells a field has just begun), "quoted" inside, "closing"
\* after a quote seen inside a quoted field.
RECURSIVE ParseFrom(_, _, _, _, _, _, _)
ParseFrom(text, i, mode, start, field, record, records) ==
    IF i > Len(text)
    THEN Append(records, Append(record, field))
    ELSE LET c == text[i]
         IN  IF mode = "quoted"
             THEN IF c = "\""
                  THEN ParseFrom(text, i + 1, "closing", FALSE, field, record, records)
                  ELSE ParseFrom(text, i + 1, "quoted", FALSE, Append(field, c),
                                 record, records)
             ELSE IF c = "\"" /\ mode = "closing"
                  THEN ParseFrom(text, i + 1, "quoted", FALSE, Append(field, c),
                                 record, records)
             ELSE IF c = "\"" /\ start
                  THEN ParseFrom(text, i + 1, "quoted", FALSE, field, record, records)
             ELSE IF c = ","
                  THEN ParseFrom(text, i + 1, "plain", TRUE, << >>,
                                 Append(record, field), records)
             ELSE IF c = "\n"
                  THEN ParseFrom(text, i + 1, "plain", TRUE, << >>, << >>,
                                 Append(records, Append(record, field)))
             ELSE ParseFrom(text, i + 1, "plain", FALSE, Append(field, c),
                            record, records)

ParseCsv(text) == ParseFrom(text, 1, "plain", TRUE, << >>, << >>, << >>)

\* The field is written in quotes, its quotes doubled
IsQuoted(str) == escapeCSV(str) = <<"\"">> \o DoubleQuotes(str) \o <<"\"">>

\* C18: the exported text, read by an RFC 4180 reader, is the header record
\* followed by one record per row in table order, each holding the row's file
\* name and response exactly; a field is written in quotes, with its quotes
\* doubled, exactly when it contains a comma, a double quote or a newline,
\* and as it is otherwise.
C18_CsvRoundTrips ==
    [][lastOp' = "downloadCSV" /\ downloads' > downloads =>
          /\ ParseCsv(CsvContent(results)) =
                <<headers>> \o [k \in 1..Len(results) |->
                                   <<results[k].fileName, results[k].response>>]
          /\ \A k \in 1..Len(results) :
                \A str \in {results[k].fileName, results[k].response} :
                   IF \E i \in 1..Len(str) : str[i] \in Specials
                   THEN IsQuoted(str)
                   ELSE escapeCSV(str) = str]_vars

\* A table of two rows was exported whose fields hold a quote, a comma and a
\* newline
C18_Witness ==
    /\ downloads = 1 /\ lastOp = "downloadCSV"
    /\ Len(results) = 2
    /\ results[1].fileName = <<"\"">> /\ results[1].response = <<",", "\n">>
    /\ results[2].response = <<"\"", "a">>

----------------------------------------------------------------------------
(* Claims about what a run reads *)

\* C19: a text written to a row's response was generated from the image the
\* row holds when it is written.
C19_TextFromOwnImage ==
    [][\A k \in Rewritten :
          results'[k].response.kind = "text" =>
             results'[k].response.img = results[k].imageSrc]_vars


\* C20: every generate call of a run is given the prompt the prompt field
\* held when the run was started.
C20_PromptFixedPerRun ==
    \A g \in gens :
        runs[g.run].pc = "generating" => g.prompt = runs[g.run].startPrompt

----------------------------------------------------------------------------
(* Claims about the engine singleton across page instances *)

\* The step is a load-model trigger
LoadRequested == lastOp' \in {"loadModel", "loadModel:ignored"}

\* The mounted page instance is fresh and the engine is loaded already
FreshPageLoadedEngine == ministral.isLoaded /\ ~isModelReady /\ ~isDownloading

\* C21: a load-model trigger on a fresh page instance, the engine singleton
\* being loaded already, starts no load, leaves the engine as it is, and
\* makes the page ready.
C21_FreshPageBecomesReady ==
    [][LoadRequested /\ FreshPageLoadedEngine =>
          /\ loads' = loads /\ ministral' = ministral
          /\ isModelReady']_vars

====
